---------------------------- MODULE Spec2Model ----------------------------
(***************************************************************************)
(* Model of the timecard backend's spreadsheet projection (main.go):       *)
(* generateExcelFile, fillWeekSheet, getUniqueJobNumbersForType,           *)
(* timeToExcelDate and generateBasicExcelFile, and of the three POST       *)
(* handlers that decode a request body and call generateExcelFile.         *)
(*                                                                         *)
(* Strings that the code inspects character by character (job codes, job   *)
(* names, composite keys, header labels) are sequences of one-character    *)
(* strings.  A timestamp string is a record [ok, day, hour, off]: ok says  *)
(* whether time.Parse(time.RFC3339, s) succeeds, day is the calendar day   *)
(* written in the string counted from 1899-12-30, hour is the hour of day  *)
(* written in it and off its UTC offset in hours.  A "2006-01-02" date     *)
(* string is therefore the day number.  Hours worked are integers.         *)
(*                                                                         *)
(* A sheet is [str, num, styles]: str and num are functions whose domain   *)
(* is the set of cells SetCellValue has written (text and numeric values), *)
(* styles is the set of ranges SetCellStyle has been applied to.  A cell   *)
(* outside both domains still holds the template's content.  The loops of  *)
(* fillWeekSheet yield their SetCellValue calls in order, and SetCells     *)
(* carries the calls out in that order.                                    *)
(***************************************************************************)
EXTENDS Integers, Sequences, FiniteSets, TLC

VARIABLES req, template, f, pc, result, fills,
          route, method, body, response, invoked

\* The state of the HTTP request that is being served, if any: the handler
\* it was routed to, its method and body, the status code answered (0 while
\* there is no answer) and the projection functions a handler has invoked.
httpVars == <<route, method, body, response, invoked>>

vars == <<req, template, f, pc, result, fills, route, method, body, response, invoked>>

(* ------------------------------ bounds -------------------------------- *)

MaxEntries == 2
MaxKeys == 17
MaxWeeks == 3
MaxSheets == 3

(* --------------------------- basic helpers ---------------------------- *)

Min(a, b) == IF a < b THEN a ELSE b

Digit == <<"0", "1", "2", "3", "4", "5", "6", "7", "8", "9">>

\* Decimal text of a job number below 100.
JobNumber(n) == IF n < 10 THEN <<Digit[n + 1]>>
                ELSE <<Digit[(n \div 10) + 1], Digit[(n % 10) + 1]>>

EmptySheet == [str |-> <<>>, num |-> <<>>, styles |-> {}]

Put(fn, a, v) == [c \in (DOMAIN fn) \cup {a} |-> IF c = a THEN v ELSE fn[c]]

\* The call f.SetCellValue(sheet, col+row, v) with a string value.
SetCellStr(col, row, v) == [cell |-> <<col, row>>, text |-> TRUE, val |-> v]

\* The call f.SetCellValue(sheet, col+row, v) with an int or float64 value.
SetCellNum(col, row, v) == [cell |-> <<col, row>>, text |-> FALSE, val |-> v]

\* The sheet after a sequence of SetCellValue calls, made in order: each
\* cell written holds the value of the last call that names it.
SetCells(sh, calls) ==
    LET last(c) == CHOOSE j \in DOMAIN calls :
                       /\ calls[j].cell = c
                       /\ \A k \in DOMAIN calls : calls[k].cell = c => k <= j
        cells == {calls[j].cell : j \in DOMAIN calls}
        strs == {c \in cells : calls[last(c)].text}
        nums == cells \ strs
    IN  [sh EXCEPT
            !.str = [c \in ((DOMAIN sh.str) \ nums) \cup strs |->
                        IF c \in strs THEN calls[last(c)].val ELSE sh.str[c]],
            !.num = [c \in ((DOMAIN sh.num) \ strs) \cup nums |->
                        IF c \in nums THEN calls[last(c)].val ELSE sh.num[c]]]

\* excelize SetCellStyle on the range startCell:endCell.
SetCellStyle(sh, startCell, endCell) ==
    [sh EXCEPT !.styles = @ \cup {<<startCell, endCell>>}]

(* ------------------------------ time ---------------------------------- *)

HoursPerDay == 24

\* time.Duration is an int64 of nanoseconds: Sub saturates at about
\* 2562047.788 hours; the model counts whole hours.
MaxDurationHours == 2562047

\* t.Format("2006-01-02"): the calendar day written in the timestamp.
FormatDate(t) == t.day

\* t.AddDate(0, 0, d)
AddDate(t, d) == [t EXCEPT !.day = @ + d]

\* t.Sub(excelEpoch), in hours, saturating like time.Duration.
SubEpoch(t) ==
    LET h == t.day * HoursPerDay + t.hour - t.off
    IN  IF h > MaxDurationHours THEN MaxDurationHours
        ELSE IF h < -MaxDurationHours THEN -MaxDurationHours
        ELSE h

\* Mutant: the UTC offset of t is ignored.
timeToExcelDateOfWallClock(t) == SubEpoch([t EXCEPT !.off = 0])

\* The Excel serial of t, in 24ths of a day (the code divides the hours by
\* 24.0; the model keeps the numerator).
timeToExcelDate(t) == SubEpoch(t)

(* ------------------------- column assignment -------------------------- *)

codeCols == <<"C", "E", "G", "I", "K", "M", "O", "Q", "S", "U", "W", "Y",
              "AA", "AC", "AE", "AG">>

jobCols == <<"D", "F", "H", "J", "L", "N", "P", "R", "T", "V", "X", "Z",
             "AB", "AD", "AF", "AH">>

\* key := e.JobCode; if e.IsNightShift { key = "N" + key }
CompositeKey(e) == IF e.IsNightShift THEN <<"N">> \o e.JobCode ELSE e.JobCode

RECURSIVE UniqueLoop(_, _, _, _, _)
UniqueLoop(entries, isOvertime, i, seen, out) ==
    IF i > Len(entries) THEN out
    ELSE LET e == entries[i]
             key == CompositeKey(e)
         IN  IF e.Overtime # isOvertime
             THEN UniqueLoop(entries, isOvertime, i + 1, seen, out)
             ELSE IF key \notin seen
             THEN UniqueLoop(entries, isOvertime, i + 1, seen \cup {key},
                             Append(out, key))
             ELSE UniqueLoop(entries, isOvertime, i + 1, seen, out)

\* Mutant: the "e.Overtime != isOvertime" test is missing.
getUniqueOfAnyType(entries, isOvertime) ==
    UniqueLoop([i \in DOMAIN entries |-> [entries[i] EXCEPT !.Overtime = isOvertime]],
               isOvertime, 1, {}, <<>>)

\* Mutant: seen[key] is never set, so every matching entry appends its key.
getUniqueWithoutSeen(entries, isOvertime) ==
    LET sel == SelectSeq(entries, LAMBDA e : e.Overtime = isOvertime)
    IN  [i \in 1..Len(sel) |-> CompositeKey(sel[i])]

getUniqueJobNumbersForType(entries, isOvertime) ==
    UniqueLoop(entries, isOvertime, 1, {}, <<>>)

(* ----------------------------- job index ------------------------------ *)

RECURSIVE JobMapLoop(_, _, _)
JobMapLoop(jobs, i, m) ==
    IF i > Len(jobs) THEN m
    ELSE JobMapLoop(jobs, i + 1, Put(m, jobs[i].JobCode, jobs[i]))

\* jobMap[req.Jobs[i].JobCode] = &req.Jobs[i], later entries overwriting.
BuildJobMap(jobs) == JobMapLoop(jobs, 1, <<>>)

HasPrefixN(key) == Len(key) >= 1 /\ key[1] = "N"

(* ----------------------------- headers -------------------------------- *)

\* One block's header loop from 0-based index i on: its SetCellValue calls.
RECURSIVE HeaderLoop(_, _, _, _)
HeaderLoop(keys, jobMap, row, i) ==
    IF i >= Len(keys) THEN <<>>
    ELSE IF i >= Len(codeCols) THEN <<>>
    ELSE LET key == keys[i + 1]
             night == HasPrefixN(key)
             actual == IF night THEN Tail(key) ELSE key
         IN  IF actual \in DOMAIN jobMap
             THEN LET name == jobMap[actual].JobName
                      code == IF night THEN <<"N">> \o name ELSE name
                  IN  <<SetCellStr(codeCols[i + 1], row, code),
                        SetCellStr(jobCols[i + 1], row, actual)>>
                          \o HeaderLoop(keys, jobMap, row, i + 1)
             ELSE HeaderLoop(keys, jobMap, row, i + 1)

(* ---------------------------- aggregation ----------------------------- *)

\* Mutant: m[date][key] = hours instead of +=.
AddHoursOverwrite(m, date, key, hours) ==
    LET inner == IF date \in DOMAIN m THEN m[date] ELSE <<>>
    IN  Put(m, date, Put(inner, key, hours))

\* m[date][key] += hours, creating m[date] when it is nil.
AddHours(m, date, key, hours) ==
    LET inner == IF date \in DOMAIN m THEN m[date] ELSE <<>>
        old == IF key \in DOMAIN inner THEN inner[key] ELSE 0
    IN  Put(m, date, Put(inner, key, old + hours))

RECURSIVE AggregateLoop(_, _, _)
AggregateLoop(entries, i, maps) ==
    IF i > Len(entries) THEN maps
    ELSE LET e == entries[i]
         IN  IF ~e.Date.ok
             THEN AggregateLoop(entries, i + 1, maps)
             ELSE LET date == FormatDate(e.Date)
                      key == CompositeKey(e)
                  IN  IF e.Overtime
                      THEN AggregateLoop(entries, i + 1,
                               [maps EXCEPT !.ot = AddHours(@, date, key, e.Hours)])
                      ELSE AggregateLoop(entries, i + 1,
                               [maps EXCEPT !.reg = AddHours(@, date, key, e.Hours)])

\* regMap and otMap after the aggregation loop.
Aggregate(entries) == AggregateLoop(entries, 1, [reg |-> <<>>, ot |-> <<>>])

\* Mutant: the "v != 0" test is missing.
WritesHoursWhenPresent(hours, key) == key \in DOMAIN hours

\* Whether a summed value is written: v, ok := hours[key]; ok && v != 0.
WritesHours(hours, key) == key \in DOMAIN hours /\ hours[key] # 0

\* One block's hour loop for one day row from 0-based index i on: its
\* SetCellValue calls.
RECURSIVE HoursLoop(_, _, _, _)
HoursLoop(keys, hours, row, i) ==
    IF i >= Len(keys) THEN <<>>
    ELSE IF i >= Len(codeCols) THEN <<>>
    ELSE LET key == keys[i + 1]
         IN  IF WritesHours(hours, key)
             THEN <<SetCellNum(codeCols[i + 1], row, hours[key])>>
                      \o HoursLoop(keys, hours, row, i + 1)
             ELSE HoursLoop(keys, hours, row, i + 1)

RegularHeaderRow == 4
OvertimeHeaderRow == 15
RegularFirstRow == 5
OvertimeFirstRow == 16
DaysPerWeek == 7

\* The day loop from day offset d on: its SetCellValue calls.
RECURSIVE DayLoop(_, _, _, _, _)
DayLoop(weekStart, regularKeys, overtimeKeys, maps, d) ==
    IF d >= DaysPerWeek THEN <<>>
    ELSE LET day == AddDate(weekStart, d)
             dateKey == FormatDate(day)
             dateSerial == timeToExcelDate(day)
             rowReg == RegularFirstRow + d
             rowOT == OvertimeFirstRow + d
             reg == IF dateKey \in DOMAIN maps.reg
                    THEN HoursLoop(regularKeys, maps.reg[dateKey], rowReg, 0)
                    ELSE <<>>
             ot == IF dateKey \in DOMAIN maps.ot
                   THEN HoursLoop(overtimeKeys, maps.ot[dateKey], rowOT, 0)
                   ELSE <<>>
         IN  <<SetCellNum("B", rowReg, dateSerial),
               SetCellNum("B", rowOT, dateSerial)>>
                 \o reg \o ot
                 \o DayLoop(weekStart, regularKeys, overtimeKeys, maps, d + 1)

\* applyBordersToRange; NewStyle with this fixed style does not fail.
applyBordersToRange(sh, startCell, endCell) == SetCellStyle(sh, startCell, endCell)

(* --------------------------- fillWeekSheet ---------------------------- *)

\* The keys of a block that reach a column slot: both loops over the keys
\* break at i >= len(codeCols).
PlacedKeys(keys) == SubSeq(keys, 1, Min(Len(keys), Len(codeCols)))

\* Returns [err, sheet, reg, ot]: err is whether an error is returned, sheet
\* the sheet afterwards, reg and ot the keys that the loops of the regular
\* and the overtime block placed in column slots.
fillWeekSheet(sh, r, week) ==
    IF ~week.WeekStartDate.ok
    THEN [err |-> TRUE, sheet |-> sh, reg |-> <<>>, ot |-> <<>>]
    ELSE LET weekStart == week.WeekStartDate
             info == <<SetCellStr("M", 2, r.EmployeeName),
                       SetCellNum("AJ", 2, r.PayPeriodNum),
                       SetCellNum("AJ", 3, r.Year),
                       SetCellNum("B", 4, timeToExcelDate(weekStart)),
                       SetCellStr("AJ", 4, week.WeekLabel)>>
             jobMap == BuildJobMap(r.Jobs)
             regularKeys == getUniqueJobNumbersForType(week.Entries, FALSE)
             overtimeKeys == getUniqueJobNumbersForType(week.Entries, TRUE)
             regHeaders == HeaderLoop(regularKeys, jobMap, RegularHeaderRow, 0)
             otHeaders == HeaderLoop(overtimeKeys, jobMap, OvertimeHeaderRow, 0)
             maps == Aggregate(week.Entries)
             days == DayLoop(weekStart, regularKeys, overtimeKeys, maps, 0)
             h1 == SetCells(sh, info \o regHeaders \o otHeaders \o days)
             h2 == applyBordersToRange(h1, <<"A", 4>>, <<"AJ", 12>>)
             h3 == applyBordersToRange(h2, <<"A", 15>>, <<"AJ", 24>>)
         IN  [err |-> FALSE, sheet |-> h3,
              reg |-> PlacedKeys(regularKeys), ot |-> PlacedKeys(overtimeKeys)]

\* Mutant: the employee name is never written.
generateBasicWithoutName(r) ==
    <<SetCells(EmptySheet,
               <<SetCellStr("A", 1, <<"E", "m", "p", "l", "o", "y", "e", "e", ":">>)>>)>>

\* generateBasicExcelFile: a new workbook with A1 and B1 set.
generateBasicExcelFile(r) ==
    <<SetCells(EmptySheet,
               <<SetCellStr("A", 1, <<"E", "m", "p", "l", "o", "y", "e", "e", ":">>),
                 SetCellStr("B", 1, r.EmployeeName)>>)>>

(* ------------------------------ inputs -------------------------------- *)

Timestamp(day, hour, off) == [ok |-> TRUE, day |-> day, hour |-> hour, off |-> off]

\* A date string that time.Parse(time.RFC3339, .) rejects.
BadTime == [ok |-> FALSE, day |-> 0, hour |-> 0, off |-> 0]

\* Midnight UTC of day d (0 = Monday) of the p-th week from 2024-01-01.
WeekDay(p, d) == Timestamp(45292 + 7 * (p - 1) + d, 0, 0)

Entry(date, jobCode, hours, overtime, night) ==
    [Date |-> date, JobCode |-> jobCode, Hours |-> hours,
     Overtime |-> overtime, IsNightShift |-> night]

Job(jobCode, jobName) == [JobCode |-> jobCode, JobName |-> jobName]

Week(start, label, entries) ==
    [WeekStartDate |-> start, WeekLabel |-> label, Entries |-> entries]

Request(jobs, weeks) ==
    [EmployeeName |-> <<"A", "n", "n">>, PayPeriodNum |-> 7, Year |-> 2024,
     Jobs |-> jobs, Weeks |-> weeks]

WeekLabelOf(p) == <<"W">> \o JobNumber(p)

SeqsUpTo(S, n) == UNION {[1..k -> S] : k \in 0..n}

TwoSheets == [exists |-> TRUE, sheets |-> 2]

\* Requests that vary the keys of one week: night shift, overtime, job codes
\* that begin with "N", unparsable entry dates, and the job list.
KeyEntries ==
    {Entry(dt, kn[1], 8, o, kn[2]) :
        dt \in {WeekDay(1, 0), BadTime},
        kn \in {<<<<"1">>, FALSE>>, <<<<"1">>, TRUE>>, <<<<"N", "1">>, FALSE>>},
        o \in BOOLEAN}

KeyJobLists ==
    {<<Job(<<"1">>, <<"2", "0", "1">>), Job(<<"N", "1">>, <<"H">>)>>,
     <<Job(<<"N", "1">>, <<"H">>)>>,
     <<Job(<<"1">>, <<"2", "0", "1">>), Job(<<"1">>, <<"2", "2", "3">>)>>}

KeyRequests ==
    {Request(jobs, <<Week(WeekDay(1, 0), WeekLabelOf(1), es)>>) :
        jobs \in KeyJobLists, es \in SeqsUpTo(KeyEntries, MaxEntries)}

\* Requests that vary the hours of one key over two days and both blocks.
HourEntries ==
    {Entry(WeekDay(1, d), <<"1">>, h, o, FALSE) :
        d \in {0, 1}, h \in {8, -8, 0}, o \in BOOLEAN}

HourRequests ==
    {Request(<<Job(<<"1">>, <<"2", "0", "1">>)>>,
             <<Week(WeekDay(1, 0), WeekLabelOf(1), es)>>) :
        es \in SeqsUpTo(HourEntries, MaxEntries)}

\* Requests with up to MaxKeys distinct job numbers in one week, in one block,
\* the other, or alternating, followed by at most one more entry.
WideJobs == [j \in 1..MaxKeys |-> Job(JobNumber(j), <<"L">> \o JobNumber(j))]

WideOvertime(pattern, j) ==
    CASE pattern = "reg" -> FALSE
      [] pattern = "ot" -> TRUE
      [] OTHER -> (j % 2 = 0)

WidePrefix(k, pattern) ==
    [j \in 1..k |-> Entry(WeekDay(1, j % 2), JobNumber(j), j,
                          WideOvertime(pattern, j), FALSE)]

WideTails ==
    SeqsUpTo({Entry(WeekDay(1, 0), JobNumber(1), 3, FALSE, FALSE),
              Entry(WeekDay(1, 1), JobNumber(1), 3, TRUE, FALSE),
              Entry(WeekDay(1, 1), JobNumber(MaxKeys), 5, FALSE, TRUE)}, 1)

WideRequests ==
    {Request(WideJobs, <<Week(WeekDay(1, 0), WeekLabelOf(1),
                              WidePrefix(k, pattern) \o tail)>>) :
        k \in 0..MaxKeys, pattern \in {"reg", "ot", "alt"}, tail \in WideTails}

\* Requests of up to MaxWeeks weeks whose start dates parse or not.
SlotWeeks(p) ==
    {Week(start, WeekLabelOf(p), es) :
        start \in {WeekDay(p, 0), BadTime},
        es \in {<<>>, <<Entry(WeekDay(p, 0), JobNumber(p), 8, FALSE, FALSE)>>}}

WeekLists ==
    UNION {{ws \in [1..k -> UNION {SlotWeeks(p) : p \in 1..k}] :
               \A p \in 1..k : ws[p] \in SlotWeeks(p)} : k \in 0..MaxWeeks}

WeekRequests == {Request(WideJobs, ws) : ws \in WeekLists}

Templates ==
    {[exists |-> FALSE, sheets |-> 0]}
        \cup {[exists |-> TRUE, sheets |-> n] : n \in 0..MaxSheets}

\* Requests that vary the time of day and the UTC offset of the week start,
\* and of one entry dated on its first or second day.
StartTimes ==
    {Timestamp(day, hour, off) :
        day \in {0, 2, 45292}, hour \in {0, 12}, off \in {0, -8, 5}}

\* Week starts at the two ends of the range of time.Duration around
\* 1899-12-30 (the years 2192 and 1607).
FarStartTimes ==
    {Timestamp(day, hour, off) :
        day \in {106751, -106752}, hour \in {0, 12}, off \in {0, -8, 5}}

DateEntries(start) ==
    {<<>>} \cup
    {<<Entry(Timestamp(start.day + d, hour, off), <<"1">>, 8, FALSE, FALSE)>> :
        d \in {0, 1}, hour \in {0, 23}, off \in {0, 5}}

DatedRequests(starts) ==
    UNION {{Request(<<Job(<<"1">>, <<"2", "0", "1">>)>>,
                    <<Week(start, WeekLabelOf(1), es)>>) :
               es \in DateEntries(start)} : start \in starts}

DateRequests == DatedRequests(StartTimes)

FarDateRequests == DatedRequests(FarStartTimes)

(* -------------------------- generateExcelFile ------------------------- *)

\* generateExcelFile called on its own, with no HTTP request around it.
NoBody == [syntax |-> FALSE, doc |-> <<>>]

NoResult == [kind |-> "none", err |-> "", book |-> <<>>]

\* return nil, err
ErrorResult(msg) == [kind |-> "error", err |-> msg, book |-> <<>>]

\* f.WriteToBuffer() and the return that follows it: the bytes of the
\* workbook, or the error of WriteToBuffer.
WriteToBuffer(book, ok) ==
    IF ok THEN [kind |-> "bytes", err |-> "", book |-> book]
    ELSE ErrorResult("WriteToBuffer")

\* What is recorded of one call of fillWeekSheet.
NotCalled == [called |-> FALSE, err |-> FALSE, reg |-> <<>>, ot |-> <<>>]

\* Mutant: with a single sheet, week 2 is filled into the first sheet.
TargetSheetOrFirst(n, nSheets, nWeeks) ==
    IF n = 1 THEN (IF nWeeks > 0 THEN 1 ELSE 0)
    ELSE (IF nWeeks > 1 THEN (IF nSheets > 1 THEN 2 ELSE 1) ELSE 0)

\* The sheet that week number n (1 or 2) is filled into; 0 when that week
\* is not filled at all.
TargetSheet(n, nSheets, nWeeks) ==
    IF n = 1 THEN (IF nWeeks > 0 THEN 1 ELSE 0)
    ELSE (IF nSheets > 1 /\ nWeeks > 1 THEN 2 ELSE 0)

\* Mutant: the error of week 1 is returned, so week 2 is not filled.
FillStepUnlessFailed(book, fl, r, n) ==
    LET t == IF n = 2 /\ fl[1].err THEN 0
             ELSE TargetSheet(n, Len(book), Len(r.Weeks))
    IN  IF t = 0 THEN [book |-> book, fills |-> fl]
        ELSE LET res == fillWeekSheet(book[t], r, r.Weeks[n])
             IN  [book |-> [book EXCEPT ![t] = res.sheet],
                  fills |-> [fl EXCEPT ![n] = [called |-> TRUE, err |-> res.err,
                                               reg |-> res.reg, ot |-> res.ot]]]

\* One "if ... fillWeekSheet(f, sheets[n-1], req, req.Weeks[n-1], n)"
\* statement: the workbook and the record of the calls afterwards.  An
\* error is logged only.
FillStep(book, fl, r, n) ==
    LET t == TargetSheet(n, Len(book), Len(r.Weeks))
    IN  IF t = 0 THEN [book |-> book, fills |-> fl]
        ELSE LET res == fillWeekSheet(book[t], r, r.Weeks[n])
             IN  [book |-> [book EXCEPT ![t] = res.sheet],
                  fills |-> [fl EXCEPT ![n] = [called |-> TRUE, err |-> res.err,
                                               reg |-> res.reg, ot |-> res.ot]]]

Init ==
    /\ \/ req \in KeyRequests /\ template = TwoSheets
       \/ req \in HourRequests /\ template = TwoSheets
       \/ req \in WideRequests /\ template = TwoSheets
       \/ req \in DateRequests /\ template = TwoSheets
       \/ req \in WeekRequests /\ template \in Templates
       \/ req \in FarDateRequests /\ template = TwoSheets
    /\ f = <<>>
    /\ pc = "open"
    /\ result = NoResult
    /\ fills = [n \in 1..2 |-> NotCalled]
    /\ route = "none"
    /\ method = "POST"
    /\ body = NoBody
    /\ response = 0
    /\ invoked = {}

\* excelize.OpenFile fails: generateBasicExcelFile is returned.
OpenFileFails ==
    /\ pc = "open"
    /\ ~template.exists
    /\ \E ok \in BOOLEAN : result' = WriteToBuffer(generateBasicExcelFile(req), ok)
    /\ pc' = "done"
    /\ UNCHANGED <<req, template, f, fills>>
    /\ UNCHANGED httpVars

\* len(sheets) == 0
NoSheets ==
    /\ pc = "open"
    /\ template.exists
    /\ template.sheets = 0
    /\ result' = ErrorResult("no sheets in template")
    /\ pc' = "done"
    /\ UNCHANGED <<req, template, f, fills>>
    /\ UNCHANGED httpVars

OpenFile ==
    /\ pc = "open"
    /\ template.exists
    /\ template.sheets > 0
    /\ f' = [i \in 1..template.sheets |-> EmptySheet]
    /\ pc' = "week1"
    /\ UNCHANGED <<req, template, result, fills>>
    /\ UNCHANGED httpVars

FillWeek1 ==
    /\ pc = "week1"
    /\ LET s == FillStep(f, fills, req, 1)
       IN  f' = s.book /\ fills' = s.fills
    /\ pc' = "week2"
    /\ UNCHANGED <<req, template, result>>
    /\ UNCHANGED httpVars

FillWeek2 ==
    /\ pc = "week2"
    /\ LET s == FillStep(f, fills, req, 2)
       IN  f' = s.book /\ fills' = s.fills
    /\ pc' = "save"
    /\ UNCHANGED <<req, template, result>>
    /\ UNCHANGED httpVars

\* f.UpdateLinkedValue() changes no cell value; then f.WriteToBuffer().
Save ==
    /\ pc = "save"
    /\ \E ok \in BOOLEAN : result' = WriteToBuffer(f, ok)
    /\ pc' = "done"
    /\ UNCHANGED <<req, template, f, fills>>
    /\ UNCHANGED httpVars

Next == OpenFileFails \/ NoSheets \/ OpenFile \/ FillWeek1 \/ FillWeek2 \/ Save

Spec == Init /\ [][Next]_vars

(* ------------------------------ handlers ------------------------------ *)

\* A JSON value of a request body, by its JSON type.  The val of a string
\* is the number its text spells.
JsonNumber(v) == [type |-> "number", val |-> v]

JsonString(v) == [type |-> "string", val |-> v]

JsonBool == [type |-> "bool", val |-> 0]

JsonNull == [type |-> "null", val |-> 0]

\* One JSON object of an "entries" array, by the keys rawEntry reads.  A
\* string key that is absent is <<>>; a flag is <<>> when absent and <<b>>
\* when present.
RawEntry(date, jobCode, code, hours, ot, otCamel, night, nightSnake, nightCamel) ==
    [date |-> date, job_code |-> jobCode, code |-> code, hours |-> hours,
     overtime |-> ot, isOvertime |-> otCamel,
     night_shift |-> night, is_night_shift |-> nightSnake,
     isNightShift |-> nightCamel]

\* The first flag that is present, in the order the code tests them; the
\* zero value when none is.
FirstPresent(flags) ==
    LET present == {i \in DOMAIN flags : flags[i] # <<>>}
    IN  IF present = {} THEN FALSE
        ELSE flags[CHOOSE i \in present : \A j \in present : i <= j][1]

\* Mutant: hours that are not a JSON number are taken as zero.
UnmarshalJSONDefaultingHours(raw) ==
    [err |-> FALSE,
     e |-> Entry(raw.date,
                 IF raw.job_code # <<>> THEN raw.job_code ELSE raw.code,
                 IF raw.hours.type = "number" THEN raw.hours.val ELSE 0,
                 FirstPresent(<<raw.overtime, raw.isOvertime>>),
                 FirstPresent(<<raw.night_shift, raw.is_night_shift,
                                raw.isNightShift>>))]

\* (*Entry).UnmarshalJSON: json.Unmarshal into rawEntry fails when "hours"
\* is neither a number nor null; null leaves the zero value.
UnmarshalJSON(raw) ==
    IF raw.hours.type \notin {"number", "null"}
    THEN [err |-> TRUE, e |-> Entry(BadTime, <<>>, 0, FALSE, FALSE)]
    ELSE [err |-> FALSE,
          e |-> Entry(raw.date,
                      IF raw.job_code # <<>> THEN raw.job_code ELSE raw.code,
                      IF raw.hours.type = "number" THEN raw.hours.val ELSE 0,
                      FirstPresent(<<raw.overtime, raw.isOvertime>>),
                      FirstPresent(<<raw.night_shift, raw.is_night_shift,
                                     raw.isNightShift>>))]

\* Decoding an "entries" array: an error of any element is the error of the
\* array.
DecodeEntries(raws) ==
    [err |-> \E i \in DOMAIN raws : UnmarshalJSON(raws[i]).err,
     entries |-> [i \in DOMAIN raws |-> UnmarshalJSON(raws[i]).e]]

Handlers == {"generateTimecardHandler", "generatePDFHandler", "emailTimecardHandler"}

\* var req TimecardRequest
ZeroRequest ==
    [EmployeeName |-> <<>>, PayPeriodNum |-> 0, Year |-> 0,
     Jobs |-> <<>>, Weeks |-> <<>>]

\* json.NewDecoder(r.Body).Decode(&req) in handler h: an error, or the
\* request.  The body must be one well-formed JSON value; "to" is decoded
\* by emailTimecardHandler only and must then be a string; every entry, of
\* "entries" and of each week, must decode.
Decode(h, b) ==
    IF ~b.syntax THEN [err |-> TRUE, req |-> ZeroRequest]
    ELSE LET doc == b.doc
             weeks == [w \in DOMAIN doc.weeks |->
                          Week(doc.weeks[w].week_start_date,
                               doc.weeks[w].week_label,
                               DecodeEntries(doc.weeks[w].entries).entries)]
             bad == \/ h = "emailTimecardHandler"
                       /\ doc.to.type \notin {"string", "null"}
                    \/ DecodeEntries(doc.entries).err
                    \/ \E w \in DOMAIN doc.weeks :
                           DecodeEntries(doc.weeks[w].entries).err
         IN  IF bad THEN [err |-> TRUE, req |-> ZeroRequest]
             ELSE [err |-> FALSE,
                   req |-> [EmployeeName |-> doc.employee_name,
                            PayPeriodNum |-> doc.pay_period_num,
                            Year |-> doc.year,
                            Jobs |-> doc.jobs,
                            Weeks |-> weeks]]

\* Entries of a body: hours as a number, a string, a boolean or null, and
\* the alternative keys for the job code and the two flags.
RawEntries ==
    {RawEntry(WeekDay(1, 0), <<"1">>, <<>>, JsonNumber(8), <<>>, <<>>, <<>>, <<>>, <<>>),
     RawEntry(WeekDay(1, 1), <<>>, <<"1">>, JsonNumber(8), <<>>, <<TRUE>>, <<>>, <<>>, <<>>),
     RawEntry(WeekDay(1, 0), <<"1">>, <<"2">>, JsonString(8), <<>>, <<>>, <<>>, <<>>, <<>>),
     RawEntry(WeekDay(1, 0), <<"1">>, <<>>, JsonNull, <<>>, <<>>, <<FALSE>>, <<>>, <<TRUE>>),
     RawEntry(WeekDay(1, 2), <<>>, <<"2">>, JsonNumber(4), <<FALSE>>, <<TRUE>>, <<>>, <<TRUE>>, <<>>),
     RawEntry(WeekDay(1, 0), <<"2">>, <<>>, JsonBool, <<>>, <<>>, <<>>, <<>>, <<>>)}

\* A body that is one well-formed JSON object.
Document(entries, weekEntries, to) ==
    [syntax |-> TRUE,
     doc |-> [employee_name |-> <<"A", "n", "n">>, pay_period_num |-> 7,
              year |-> 2024,
              jobs |-> <<Job(<<"1">>, <<"2", "0", "1">>)>>,
              entries |-> entries,
              weeks |-> <<[week_start_date |-> WeekDay(1, 0),
                           week_label |-> WeekLabelOf(1),
                           entries |-> weekEntries]>>,
              to |-> to]]

\* A body that is not one JSON value: empty, truncated or otherwise
\* ill-formed.
MalformedBody == [syntax |-> FALSE, doc |-> <<>>]

Bodies ==
    {MalformedBody} \cup
    {Document(es, wes, to) :
        es \in {<<>>,
                <<RawEntry(WeekDay(1, 0), <<"1">>, <<>>, JsonString(8),
                           <<>>, <<>>, <<>>, <<>>, <<>>)>>},
        wes \in SeqsUpTo(RawEntries, MaxEntries),
        to \in {JsonString(0), JsonNumber(5)}}

\* A request arrives at one of the three handlers.
HandlerInit ==
    /\ route \in Handlers
    /\ \/ method = "POST" /\ body \in Bodies
       \/ method \in {"OPTIONS", "GET"} /\ body = MalformedBody
    /\ template \in Templates
    /\ req = ZeroRequest
    /\ f = <<>>
    /\ pc = "recv"
    /\ result = NoResult
    /\ fills = [n \in 1..2 |-> NotCalled]
    /\ response = 0
    /\ invoked = {}

\* corsMiddleware answers a preflight request itself.
Preflight ==
    /\ pc = "recv"
    /\ method = "OPTIONS"
    /\ response' = 200
    /\ pc' = "responded"
    /\ UNCHANGED <<req, template, f, result, fills, route, method, body, invoked>>

\* r.Method != http.MethodPost
MethodNotAllowed ==
    /\ pc = "recv"
    /\ method \notin {"OPTIONS", "POST"}
    /\ response' = 405
    /\ pc' = "responded"
    /\ UNCHANGED <<req, template, f, result, fills, route, method, body, invoked>>

\* Decode returns an error: http.StatusBadRequest, and the handler returns.
DecodeFails ==
    /\ pc = "recv"
    /\ method = "POST"
    /\ Decode(route, body).err
    /\ response' = 400
    /\ pc' = "responded"
    /\ UNCHANGED <<req, template, f, result, fills, route, method, body, invoked>>

\* Decode succeeds and the handler calls generateExcelFile(req).
DecodeBody ==
    /\ pc = "recv"
    /\ method = "POST"
    /\ ~Decode(route, body).err
    /\ req' = Decode(route, body).req
    /\ invoked' = invoked \cup {"generateExcelFile"}
    /\ pc' = "open"
    /\ UNCHANGED <<template, f, result, fills, route, method, body, response>>

\* generateExcelFile returned an error: http.StatusInternalServerError.
ExcelError ==
    /\ pc = "done"
    /\ route \in Handlers
    /\ result.kind = "error"
    /\ response' = 500
    /\ pc' = "responded"
    /\ UNCHANGED <<req, template, f, result, fills, route, method, body, invoked>>

\* generateTimecardHandler writes the workbook.
WriteExcel ==
    /\ pc = "done"
    /\ route = "generateTimecardHandler"
    /\ result.kind = "bytes"
    /\ response' = 200
    /\ pc' = "responded"
    /\ UNCHANGED <<req, template, f, result, fills, route, method, body, invoked>>

\* generatePDFHandler calls generatePDFFromExcel, which succeeds or not.
ConvertPDF ==
    /\ pc = "done"
    /\ route = "generatePDFHandler"
    /\ result.kind = "bytes"
    /\ invoked' = invoked \cup {"generatePDFFromExcel"}
    /\ \E ok \in BOOLEAN : response' = IF ok THEN 200 ELSE 500
    /\ pc' = "responded"
    /\ UNCHANGED <<req, template, f, result, fills, route, method, body>>

\* emailTimecardHandler calls sendEmail, which succeeds or not.
SendEmail ==
    /\ pc = "done"
    /\ route = "emailTimecardHandler"
    /\ result.kind = "bytes"
    /\ invoked' = invoked \cup {"sendEmail"}
    /\ \E ok \in BOOLEAN : response' = IF ok THEN 200 ELSE 500
    /\ pc' = "responded"
    /\ UNCHANGED <<req, template, f, result, fills, route, method, body>>

HandlerNext ==
    \/ Preflight \/ MethodNotAllowed \/ DecodeFails \/ DecodeBody
    \/ OpenFileFails \/ NoSheets \/ OpenFile \/ FillWeek1 \/ FillWeek2 \/ Save
    \/ ExcelError \/ WriteExcel \/ ConvertPDF \/ SendEmail

HandlerSpec == HandlerInit /\ [][HandlerNext]_vars

(* ------------------------ vocabulary of the claims -------------------- *)

\* Call n of fillWeekSheet was made and returned no error.
FilledOk(n) == fills[n].called /\ ~fills[n].err

\* The keys call n placed in the column slots of a block (TRUE = overtime).
Placed(n, b) == IF b THEN fills[n].ot ELSE fills[n].reg

HeaderRow(b) == IF b THEN OvertimeHeaderRow ELSE RegularHeaderRow

FirstRow(b) == IF b THEN OvertimeFirstRow ELSE RegularFirstRow

\* The rows of a block: its header row and its seven day rows.
BlockRows(b) == HeaderRow(b)..(FirstRow(b) + DaysPerWeek - 1)

WrittenCells(sh) == (DOMAIN sh.str) \cup (DOMAIN sh.num)

\* The label and job-number columns of the first k column slots.
SlotCols(k) == {codeCols[i] : i \in 1..k} \cup {jobCols[i] : i \in 1..k}

\* The positions of a week's entries that belong to a block.
BlockIdx(es, b) == {i \in DOMAIN es : es[i].Overtime = b}

BlockKeys(es, b) == {CompositeKey(es[i]) : i \in BlockIdx(es, b)}

\* Where key k first appears among the block's entries.
FirstAt(es, b, k) ==
    CHOOSE i \in BlockIdx(es, b) :
        /\ CompositeKey(es[i]) = k
        /\ \A j \in BlockIdx(es, b) : j < i => CompositeKey(es[j]) # k

\* How many distinct keys of the block first appear before key k.
Rank(es, b, k) ==
    Cardinality({k2 \in BlockKeys(es, b) : FirstAt(es, b, k2) < FirstAt(es, b, k)})

\* The entries of a block with key k dated on calendar day `day`.
Matching(es, b, k, day) ==
    {i \in DOMAIN es : /\ es[i].Overtime = b
                       /\ CompositeKey(es[i]) = k
                       /\ es[i].Date.ok
                       /\ es[i].Date.day = day}

RECURSIVE SumHours(_, _)
SumHours(es, I) ==
    IF I = {} THEN 0
    ELSE LET i == CHOOSE x \in I : TRUE
         IN  es[i].Hours + SumHours(es, I \ {i})

\* The data cell of 1-based column slot i on day offset d of a block.
DataCell(b, i, d) == <<codeCols[i], FirstRow(b) + d>>

(* -------------------------------- C1 ---------------------------------- *)

\* C1: in each block of a filled week sheet, column slot i holds the i-th
\* distinct composite key in order of first appearance among the week's
\* entries with the block's overtime flag; only the first 16 are placed, a
\* later key has no cell (every written cell of the block lies in the date
\* column, column AJ or a placed slot), and no error is returned.
C1_ColumnOrder ==
    \A n \in 1..2 :
        (fills[n].called /\ req.Weeks[n].WeekStartDate.ok) =>
            /\ ~fills[n].err
            /\ \A b \in BOOLEAN :
                LET es == req.Weeks[n].Entries
                    placed == Placed(n, b)
                IN  /\ Len(placed) = Min(Cardinality(BlockKeys(es, b)), Len(codeCols))
                    /\ \A i \in 1..Len(placed) :
                           /\ placed[i] \in BlockKeys(es, b)
                           /\ Rank(es, b, placed[i]) = i - 1
                    /\ \A c \in WrittenCells(f[n]) :
                           c[2] \in BlockRows(b) =>
                               c[1] \in {"B", "AJ"} \cup SlotCols(Len(placed))

\* A week with more than 16 distinct regular keys, one of them repeated
\* after the 17th, was filled and the workbook returned.
C1_Witness ==
    /\ pc = "done"
    /\ result.kind = "bytes"
    /\ FilledOk(1)
    /\ LET es == req.Weeks[1].Entries
       IN  /\ Cardinality(BlockKeys(es, FALSE)) > Len(codeCols)
           /\ Len(fills[1].reg) = Len(codeCols)
           /\ \E i, j \in BlockIdx(es, FALSE) :
                  i < j /\ CompositeKey(es[i]) = CompositeKey(es[j])

(* -------------------------------- C2 ---------------------------------- *)

\* C2: for each day offset d and each key placed in slot i of a block, the
\* value in the data cell (label column i, row 5+d or 16+d) is the sum of
\* the hours of the week's entries with that block's overtime flag, that
\* key and calendar date week start + d; a non-zero sum is written.
C2_CellIsSum ==
    \A n \in 1..2 :
        FilledOk(n) =>
            \A b \in BOOLEAN :
                \A i \in 1..Len(Placed(n, b)) :
                    \A d \in 0..(DaysPerWeek - 1) :
                        LET w == req.Weeks[n]
                            sum == SumHours(w.Entries,
                                       Matching(w.Entries, b, Placed(n, b)[i],
                                                w.WeekStartDate.day + d))
                            cell == DataCell(b, i, d)
                        IN  /\ cell \in DOMAIN f[n].num => f[n].num[cell] = sum
                            /\ sum # 0 => cell \in DOMAIN f[n].num

\* Two entries of one key, day and block were added up into one cell.
C2_Witness ==
    /\ pc = "done"
    /\ FilledOk(1)
    /\ \E b \in BOOLEAN :
        \E i \in 1..Len(Placed(1, b)) :
            \E d \in 0..(DaysPerWeek - 1) :
                LET w == req.Weeks[1]
                    m == Matching(w.Entries, b, Placed(1, b)[i],
                                  w.WeekStartDate.day + d)
                IN  /\ Cardinality(m) >= 2
                    /\ \A x \in m : w.Entries[x].Hours # 0
                    /\ DataCell(b, i, d) \in DOMAIN f[1].num
                    /\ f[1].num[DataCell(b, i, d)] = SumHours(w.Entries, m)

(* -------------------------------- C6 ---------------------------------- *)

C3_BadDateContributesNothing ==
    \A n \in 1..2 :
        fills[n].called =>
            LET w == req.Weeks[n]
                clean == [w EXCEPT !.Entries = SelectSeq(@, LAMBDA e : e.Date.ok)]
                r == fillWeekSheet(EmptySheet, req, clean)
            IN  /\ f[n] = r.sheet
                /\ fills[n].reg = r.reg
                /\ fills[n].ot = r.ot
                /\ fills[n].err = r.err

(* -------------------------------- C4 ---------------------------------- *)

\* The fallback workbook: one sheet, A1 = "Employee:", B1 = employee name.
FallbackBook(r) ==
    <<[str |-> (<<"A", 1>> :> <<"E", "m", "p", "l", "o", "y", "e", "e", ":">>)
                   @@ (<<"B", 1>> :> r.EmployeeName),
       num |-> <<>>,
       styles |-> {}]>>

\* C4 as claimed: generateExcelFile returns no error because of the
\* template: with no template file, and with a template of zero sheets, it
\* returns the fallback workbook (any error is the one of WriteToBuffer).
C4_TemplateNeverAnError ==
    (pc = "done" /\ (~template.exists \/ template.sheets = 0)) =>
        \/ result.kind = "bytes" /\ result.book = FallbackBook(req)
        \/ result.kind = "error" /\ result.err = "WriteToBuffer"

\* C4 amended: when the template file cannot be opened generateExcelFile
\* returns the fallback workbook (any error is the one of WriteToBuffer);
\* when the opened template has zero sheets it returns the error "no sheets
\* in template" and no workbook.
C4_FallbackOnlyWhenNotOpened ==
    pc = "done" =>
        /\ ~template.exists =>
               \/ result.kind = "bytes" /\ result.book = FallbackBook(req)
               \/ result.kind = "error" /\ result.err = "WriteToBuffer"
        /\ (template.exists /\ template.sheets = 0) =>
               /\ result.kind = "error"
               /\ result.err = "no sheets in template"
               /\ result.book = <<>>

\* With no template file the fallback workbook was returned, for a request
\* that has a week to project.
C4_Witness ==
    /\ pc = "done"
    /\ ~template.exists
    /\ result.kind = "bytes"
    /\ Len(result.book) = 1
    /\ result.book[1].str[<<"B", 1>>] = req.EmployeeName
    /\ Len(req.Weeks) > 0

(* -------------------------------- C5 ---------------------------------- *)

\* The display name the job list gives a job code (the last job with it).
DisplayName(jobs, code) ==
    LET last == CHOOSE i \in DOMAIN jobs :
                    /\ jobs[i].JobCode = code
                    /\ \A j \in DOMAIN jobs : j > i => jobs[j].JobCode # code
    IN  jobs[last].JobName

\* C5: for a key placed in slot i whose entries all have one job code and
\* one night-shift flag, and whose job code is in the job list, the label
\* cell of the slot's header holds the job's display name, prefixed "N"
\* exactly when those entries are night-shift, and the job-number cell
\* holds their job code unchanged.
C5_HeaderOfKey ==
    \A n \in 1..2 :
        FilledOk(n) =>
            \A b \in BOOLEAN :
                \A i \in 1..Len(Placed(n, b)) :
                    LET es == req.Weeks[n].Entries
                        from == {x \in BlockIdx(es, b) :
                                    CompositeKey(es[x]) = Placed(n, b)[i]}
                        kinds == {<<es[x].JobCode, es[x].IsNightShift>> : x \in from}
                        e == es[CHOOSE x \in from : TRUE]
                        label == <<codeCols[i], HeaderRow(b)>>
                        number == <<jobCols[i], HeaderRow(b)>>
                    IN  (/\ Cardinality(kinds) = 1
                         /\ \E j \in DOMAIN req.Jobs : req.Jobs[j].JobCode = e.JobCode) =>
                            /\ label \in DOMAIN f[n].str
                            /\ f[n].str[label] =
                                  (IF e.IsNightShift THEN <<"N">> ELSE <<>>)
                                      \o DisplayName(req.Jobs, e.JobCode)
                            /\ number \in DOMAIN f[n].str
                            /\ f[n].str[number] = e.JobCode

(* -------------------------------- C7 ---------------------------------- *)

\* The workbook generateExcelFile fills for request r on a template of k
\* sheets: both fill statements in order.
Project(r, k) ==
    LET s1 == FillStep([i \in 1..k |-> EmptySheet], [n \in 1..2 |-> NotCalled], r, 1)
        s2 == FillStep(s1.book, s1.fills, r, 2)
    IN  s2.book

\* The request with the start date of week n replaced by one that parses.
WithValidStart(r, n) == [r EXCEPT !.Weeks[n].WeekStartDate = WeekDay(n, 0)]

\* C7: when the start date of week n does not parse, fillWeekSheet returns
\* an error and no cell or style of sheet n is ever written; once both fill
\* statements have run, the other week's sheet is what it would be had week
\* n been valid; and generateExcelFile returns the workbook's bytes (its
\* only error is the one of WriteToBuffer).
C7_BadWeekStartSkipsOnlyThatWeek ==
    \A n \in 1..2 :
        (n <= Len(req.Weeks) /\ ~req.Weeks[n].WeekStartDate.ok) =>
            /\ n <= Len(f) => f[n] = EmptySheet
            /\ fills[n].called => fills[n].err
            /\ (pc \in {"save", "done"} /\ 3 - n <= Len(f)) =>
                   f[3 - n] = Project(WithValidStart(req, n), Len(f))[3 - n]
            /\ (pc = "done" /\ Len(f) > 0) =>
                   \/ result.kind = "bytes" /\ result.book = f
                   \/ result.kind = "error" /\ result.err = "WriteToBuffer"

\* Week 1 failed to parse, week 2 was written to the second sheet, and the
\* workbook was returned.
C7_Witness ==
    /\ pc = "done"
    /\ result.kind = "bytes"
    /\ Len(req.Weeks) >= 2
    /\ ~req.Weeks[1].WeekStartDate.ok
    /\ fills[1].err
    /\ FilledOk(2)
    /\ f[1] = EmptySheet
    /\ req.Weeks[2].Entries # <<>>
    /\ DataCell(FALSE, 1, 0) \in DOMAIN f[2].num

(* -------------------------------- C8 ---------------------------------- *)

Restrict(fn, rows) == [c \in {x \in DOMAIN fn : x[2] \in rows} |-> fn[c]]

\* The cells of a sheet in the rows of one block.
BlockOf(sh, b) ==
    [str |-> Restrict(sh.str, BlockRows(b)), num |-> Restrict(sh.num, BlockRows(b))]

\* The week with only the entries of one block.
OnlyBlock(w, b) == [w EXCEPT !.Entries = SelectSeq(@, LAMBDA e : e.Overtime = b)]

\* C8: the keys placed in a block and the cells of its rows (4-11 regular,
\* 15-22 overtime) are those of the same week with every entry of the other
\* block removed: they are a function of the block's own entries, so that
\* adding, removing or reordering entries of the other block changes none.
C8_BlocksIndependent ==
    \A n \in 1..2 :
        FilledOk(n) =>
            \A b \in BOOLEAN :
                LET r == fillWeekSheet(EmptySheet, req, OnlyBlock(req.Weeks[n], b))
                IN  /\ BlockOf(f[n], b) = BlockOf(r.sheet, b)
                    /\ Placed(n, b) = (IF b THEN r.ot ELSE r.reg)

\* One composite key sits in different column slots in the two blocks, and
\* both blocks hold hours.
C8_Witness ==
    /\ pc = "done"
    /\ FilledOk(1)
    /\ \E i \in 1..Len(fills[1].reg) :
        \E j \in 1..Len(fills[1].ot) :
            /\ i # j
            /\ fills[1].reg[i] = fills[1].ot[j]
            /\ \E d \in 0..(DaysPerWeek - 1) : DataCell(FALSE, i, d) \in DOMAIN f[1].num
            /\ \E d \in 0..(DaysPerWeek - 1) : DataCell(TRUE, j, d) \in DOMAIN f[1].num

(* -------------------------------- C9 ---------------------------------- *)

\* What a fresh sheet becomes when week n is filled into it.
Filled(n) == fillWeekSheet(EmptySheet, req, req.Weeks[n]).sheet

\* C9: the first sheet is only ever written by week 1 and the second only
\* by week 2; sheets after the second are never written, so weeks after
\* the second cause no write; and once both fill statements have run, week
\* 1 is on the first sheet and week 2 on the second when that sheet exists.
C9_AtMostTwoWeeks ==
    /\ \A s \in 1..Len(f) :
           \/ f[s] = EmptySheet
           \/ s <= 2 /\ s <= Len(req.Weeks) /\ f[s] = Filled(s)
    /\ \A n \in 1..2 :
           /\ fills[n].called => n <= Len(req.Weeks) /\ n <= Len(f)
           /\ (pc \in {"save", "done"} /\ n <= Len(req.Weeks) /\ n <= Len(f)) =>
                  f[n] = Filled(n)

\* Three weeks on a three-sheet template, week 1 unparsable: the first and
\* third sheets are untouched and week 2 is on the second.
C9_Witness ==
    /\ pc = "done"
    /\ Len(req.Weeks) = 3
    /\ Len(f) = 3
    /\ ~req.Weeks[1].WeekStartDate.ok
    /\ req.Weeks[3].WeekStartDate.ok
    /\ FilledOk(2)
    /\ f[1] = EmptySheet
    /\ f[2] # EmptySheet
    /\ f[2].str[<<"AJ", 4>>] = req.Weeks[2].WeekLabel
    /\ f[3] = EmptySheet

(* -------------------------------- C10 --------------------------------- *)

\* Hours from 1899-12-30 00:00 UTC to the instant a timestamp denotes.
Elapsed(t) == (t.day * HoursPerDay + t.hour) - t.off

Saturated(h) ==
    IF h > MaxDurationHours THEN MaxDurationHours
    ELSE IF h < -MaxDurationHours THEN -MaxDurationHours ELSE h

DateCell(row) == <<"B", row>>

\* C10 as claimed: the serial in B4 is the whole number of days from
\* 1899-12-30 to the week start's date at 00:00, and the serial of day d
\* that number plus d, whatever the time of day of the week start.
C10_SerialOfDateAtMidnight ==
    \A n \in 1..2 :
        FilledOk(n) =>
            LET ws == req.Weeks[n].WeekStartDate
            IN  /\ f[n].num[DateCell(RegularHeaderRow)] = ws.day * HoursPerDay
                /\ \A d \in 0..(DaysPerWeek - 1) :
                       /\ f[n].num[DateCell(RegularFirstRow + d)] = (ws.day + d) * HoursPerDay
                       /\ f[n].num[DateCell(OvertimeFirstRow + d)] = (ws.day + d) * HoursPerDay

\* C10 amended: the serial in B4 is the time elapsed from 1899-12-30 00:00
\* UTC to the instant of the week-start timestamp, time of day and UTC
\* offset included, saturated at the range of time.Duration; the serials of
\* day d are those of the instant d days later, so the week start's serial
\* plus d unless saturated; 1899-12-30T00:00:00Z gives 0 and
\* 1900-01-01T00:00:00Z gives 2 days.
C10_SerialOfInstant ==
    \A n \in 1..2 :
        FilledOk(n) =>
            LET ws == req.Weeks[n].WeekStartDate
                b4 == f[n].num[DateCell(RegularHeaderRow)]
            IN  /\ b4 = Saturated(Elapsed(ws))
                /\ ws = Timestamp(0, 0, 0) => b4 = 0
                /\ ws = Timestamp(2, 0, 0) => b4 = 2 * HoursPerDay
                /\ \A d \in 0..(DaysPerWeek - 1) :
                       LET reg == f[n].num[DateCell(RegularFirstRow + d)]
                           ot == f[n].num[DateCell(OvertimeFirstRow + d)]
                       IN  /\ reg = Saturated(Elapsed(ws) + d * HoursPerDay)
                           /\ ot = reg
                           /\ (/\ -MaxDurationHours <= Elapsed(ws)
                               /\ Elapsed(ws) + d * HoursPerDay <= MaxDurationHours) =>
                                  reg = b4 + d * HoursPerDay

\* A week start at noon, five hours east of UTC, was written with a
\* fractional serial, and each day's serial is one day more.
C10_Witness ==
    /\ pc = "done"
    /\ FilledOk(1)
    /\ LET ws == req.Weeks[1].WeekStartDate
       IN  /\ ws.hour = 12
           /\ ws.off = 5
           /\ f[1].num[DateCell(RegularHeaderRow)] = ws.day * HoursPerDay + 7
           /\ f[1].num[DateCell(RegularFirstRow + 1)] =
                  f[1].num[DateCell(RegularHeaderRow)] + HoursPerDay

(* -------------------------------- C11 --------------------------------- *)

\* The body is malformed JSON, or the hours of one of its entries are a
\* JSON value that is neither a number nor null.
MalformedOrNonNumericHours ==
    \/ ~body.syntax
    \/ \E i \in DOMAIN body.doc.entries :
           body.doc.entries[i].hours.type \in {"string", "bool"}
    \/ \E w \in DOMAIN body.doc.weeks :
           \E i \in DOMAIN body.doc.weeks[w].entries :
               body.doc.weeks[w].entries[i].hours.type \in {"string", "bool"}

\* C11: in each of the three handlers, a POST request whose body is
\* malformed JSON or has non-numeric hours is never past the decoding: the
\* handler is still to answer or has answered 400, and generateExcelFile,
\* the PDF conversion and the mail send have not been invoked.  And whenever
\* 400 is the answer, of whatever decoding failure, none of the three has
\* been invoked and no workbook exists.
C11_UndecodableBodyRejectedFirst ==
    /\ (route \in Handlers /\ method = "POST" /\ MalformedOrNonNumericHours) =>
           /\ pc \in {"recv", "responded"}
           /\ pc = "responded" => response = 400
           /\ invoked = {}
           /\ result = NoResult
    /\ response = 400 =>
           /\ invoked = {}
           /\ result = NoResult
           /\ f = <<>>

\* generatePDFHandler has answered 400 to a well-formed body whose only
\* defect is an entry with hours given as a string, next to a sound entry.
C11_Witness ==
    /\ pc = "responded"
    /\ response = 400
    /\ route = "generatePDFHandler"
    /\ body.syntax
    /\ body.doc.entries = <<>>
    /\ body.doc.to.type = "string"
    /\ \E i \in DOMAIN body.doc.weeks[1].entries :
           body.doc.weeks[1].entries[i].hours.type = "string"
    /\ \E i \in DOMAIN body.doc.weeks[1].entries :
           body.doc.weeks[1].entries[i].hours.type = "number"

(* -------------------------------- C12 --------------------------------- *)

\* The job codes that the job list of the request names.
ListedCodes == {req.Jobs[j].JobCode : j \in DOMAIN req.Jobs}

\* The entries of call n's week, in block b, that make up the key in slot i.
EntriesOfSlot(n, b, i) ==
    {x \in BlockIdx(req.Weeks[n].Entries, b) :
        CompositeKey(req.Weeks[n].Entries[x]) = Placed(n, b)[i]}

\* Slot i of block b in call n holds a key none of whose entries has a job
\* code of the job list.
UnlistedSlot(n, b, i) ==
    \A x \in EntriesOfSlot(n, b, i) :
        req.Weeks[n].Entries[x].JobCode \notin ListedCodes

\* C12: a composite key whose job code is not in the job list still takes
\* its column slot (the slot of its rank of first appearance, so later keys
\* are not shifted into it); neither header cell of the slot is written;
\* each day on which its hours sum to a non-zero value has that sum in the
\* slot's data cell; and the fill returns no error.
C12_UnlistedKeyKeepsSlotWithoutHeader ==
    \A n \in 1..2 :
        fills[n].called /\ req.Weeks[n].WeekStartDate.ok =>
            /\ ~fills[n].err
            /\ \A b \in BOOLEAN :
                   \A i \in 1..Len(Placed(n, b)) :
                       LET es == req.Weeks[n].Entries
                           k == Placed(n, b)[i]
                       IN  UnlistedSlot(n, b, i) =>
                               /\ Rank(es, b, k) = i - 1
                               /\ <<codeCols[i], HeaderRow(b)>> \notin WrittenCells(f[n])
                               /\ <<jobCols[i], HeaderRow(b)>> \notin WrittenCells(f[n])
                               /\ \A d \in 0..(DaysPerWeek - 1) :
                                      LET day == req.Weeks[n].WeekStartDate.day + d
                                          sum == SumHours(es, Matching(es, b, k, day))
                                      IN  sum # 0 =>
                                              /\ DataCell(b, i, d) \in DOMAIN f[n].num
                                              /\ f[n].num[DataCell(b, i, d)] = sum

=============================================================================
